---- MODULE Spec2Model ----
(***************************************************************************)
(* Model of backend/core/schema.py: the GraphQL resolvers and mutations of *)
(* OrgFlow over the Django tables User, Organization, Project and Task.    *)
(* The database is the only shared state.  Django runs in autocommit mode  *)
(* and schema.py opens no transaction, so every ORM call (get, create,     *)
(* add, save) is a step of its own that other requests can interleave      *)
(* with.                                                                   *)
(***************************************************************************)
EXTENDS Integers, Sequences, FiniteSets, TLC

\* ---------------------------------------------------------------- bounds
NumWorkers == 2       \* request-handling threads running concurrently
MaxProjects == 2      \* rows of the Project table
MaxTasks == 1         \* rows of the Task table when every field is patched
MaxRateTasks == 4     \* rows of the Task table when only the status is patched

\* ---------------------------------------------------------------- values
None == "<None>"                       \* Python None / SQL NULL
AnonymousUser == "<AnonymousUser>"     \* info.context.user of an unauthenticated request

Usernames == {"alice", "bob"}
Workers == 1..NumWorkers

\* organization_name arguments, as sequences of characters
OrgNames == { <<"A", "c">>, <<" ", "a", "c", "!">>, <<"B", " ", "-", "x">> }

\* ---------------------------------------------------------------- slugify
\* django.utils.text.slugify: lower-case, drop what is not [\w\s-], turn
\* every run of hyphens and whitespace into one "-", strip "-" and "_" from
\* both ends.
Lower(c) == CASE c = "A" -> "a" [] c = "B" -> "b" [] OTHER -> c

IsWordSpaceHyphen(c) == c \in {"a", "b", "c", "x", "_", " ", "-"}

IsHyphenSpace(c) == c \in {" ", "-"}

RECURSIVE DropUnwanted(_)
DropUnwanted(s) ==
    IF s = <<>> THEN <<>>
    ELSE (IF IsWordSpaceHyphen(Lower(Head(s))) THEN <<Lower(Head(s))>> ELSE <<>>)
         \o DropUnwanted(Tail(s))

RECURSIVE SkipHyphenSpace(_)
SkipHyphenSpace(s) ==
    IF s # <<>> /\ IsHyphenSpace(Head(s)) THEN SkipHyphenSpace(Tail(s)) ELSE s

RECURSIVE CollapseRuns(_)
CollapseRuns(s) ==
    IF s = <<>> THEN <<>>
    ELSE IF IsHyphenSpace(Head(s)) THEN <<"-">> \o CollapseRuns(SkipHyphenSpace(s))
    ELSE <<Head(s)>> \o CollapseRuns(Tail(s))

RECURSIVE StripLeft(_)
StripLeft(s) ==
    IF s # <<>> /\ Head(s) \in {"-", "_"} THEN StripLeft(Tail(s)) ELSE s

RECURSIVE StripRight(_)
StripRight(s) ==
    IF s # <<>> /\ s[Len(s)] \in {"-", "_"} THEN StripRight(SubSeq(s, 1, Len(s) - 1)) ELSE s

slugify(value) == StripRight(StripLeft(CollapseRuns(DropUnwanted(value))))

\* ---------------------------------------------------------------- state
VARIABLES
    users,      \* usernames of the rows of auth_user
    orgs,       \* Organization table: sequence of [name, slug, owner, members]
    projects,   \* Project table: sequence of [organization, status]
    tasks,      \* Task table: sequence of [project, status, description, assignee_email, due_date]
    reg,        \* per worker: the Register call it is executing
    upd,        \* per worker: the UpdateTask / UpdateProject call it is executing
    resp        \* the response of the last single-step resolver or mutation

vars == <<users, orgs, projects, tasks, reg, upd, resp>>

NoInstance == [id |-> 0, name |-> <<>>, slug |-> <<>>, owner |-> None]

IdleReg == [pc |-> "idle", username |-> None, organization_name |-> <<>>, org |-> NoInstance]

NoTask == [project |-> 0, status |-> None, description |-> None,
           assignee_email |-> None, due_date |-> None]

NoArgs == [status |-> None, description |-> None, assignee_email |-> None, due_date |-> None]

IdleUpd == [pc |-> "idle", op |-> None, id |-> 0, args |-> NoArgs, task |-> NoTask,
            project |-> [organization |-> 0, status |-> None]]

NoResp == [op |-> None, outcome |-> None]

\* ---------------------------------------------------------------- tables
\* Organization.objects.get(slug=slug): the ids of the rows with that slug
OrgIdsBySlug(table, slug) == {i \in 1..Len(table) : table[i].slug = slug}

\* The unique constraint on Organization.slug (models.py): an INSERT of a
\* slug that is already in the table raises IntegrityError.
SlugInsertAllowed(table, slug) == OrgIdsBySlug(table, slug) = {}

\* the model instance Organization.objects.get(slug=slug) returns
OrgInstance(table, id) ==
    [id |-> id, name |-> table[id].name, slug |-> table[id].slug, owner |-> table[id].owner]

\* mutant: the joining user is written into the loaded instance as its owner
RegisterLoadOrgTakesOwnership(table, slug, user) ==
    [OrgInstance(table, CHOOSE i \in OrgIdsBySlug(table, slug) : TRUE) EXCEPT !.owner = user]

RegisterLoadOrg(table, slug, user) ==
    OrgInstance(table, CHOOSE i \in OrgIdsBySlug(table, slug) : TRUE)

\* Organization.objects.create(name=organization_name, slug=slug, owner=user)
OrganizationCreate(table, name, slug, user) ==
    Append(table, [name |-> name, slug |-> slug, owner |-> user, members |-> {}])

\* mutant: only the owner is linked to the organization
MembersAddOwnerOnly(table, id, user) ==
    IF table[id].owner = user THEN [table EXCEPT ![id].members = @ \cup {user}] ELSE table

\* org.members.add(user)
MembersAdd(table, id, user) ==
    [table EXCEPT ![id].members = @ \cup {user}]

\* org.save(): UPDATE of every column of the row from the instance
OrgSave(table, inst) ==
    [table EXCEPT ![inst.id] = [@ EXCEPT !.name = inst.name, !.slug = inst.slug,
                                         !.owner = inst.owner]]

\* OrganizationType.resolve_is_admin
resolve_is_admin(org, user) == org.owner = user

\* mutant: the membership check is skipped
resolve_project_no_member_check(projectTable, orgTable, user, id) ==
    IF user = AnonymousUser THEN "raise Not logged in"
    ELSE IF id \notin 1..Len(projectTable) THEN "null"
    ELSE "project"

\* Query.resolve_project: what the resolver answers
resolve_project(projectTable, orgTable, user, id) ==
    IF user = AnonymousUser THEN "raise Not logged in"
    ELSE IF id \notin 1..Len(projectTable) THEN "null"
    ELSE IF user \notin orgTable[projectTable[id].organization].members
         THEN "raise Access Denied"
    ELSE "project"

\* the status a Project row gets when CreateProject passes none
ProjectDefaultStatus == "open"

\* ---------------------------------------------------------------- Register
RegisterStart(w, username, organization_name) ==
    /\ reg[w].pc = "idle"
    /\ reg' = [reg EXCEPT ![w] =
                 [IdleReg EXCEPT !.username = username,
                                 !.organization_name = organization_name,
                                 !.pc = IF username \in users
                                        THEN "raised Username already exists"
                                        ELSE "create_user"]]
    /\ UNCHANGED <<users, orgs, projects, tasks, upd, resp>>

RegisterCreateUser(w) ==
    /\ reg[w].pc = "create_user"
    /\ IF reg[w].username \in users
       THEN /\ reg' = [reg EXCEPT ![w].pc = "raised IntegrityError username"]
            /\ users' = users
       ELSE /\ users' = users \cup {reg[w].username}
            /\ reg' = [reg EXCEPT ![w].pc = "get_org"]
    /\ UNCHANGED <<orgs, projects, tasks, upd, resp>>

RegisterGetOrg(w) ==
    /\ reg[w].pc = "get_org"
    /\ LET slug == slugify(reg[w].organization_name) IN
       reg' = IF OrgIdsBySlug(orgs, slug) # {}
              THEN [reg EXCEPT ![w].org = RegisterLoadOrg(orgs, slug, reg[w].username),
                               ![w].pc = "add_member"]
              ELSE [reg EXCEPT ![w].pc = "create_org"]
    /\ UNCHANGED <<users, orgs, projects, tasks, upd, resp>>

RegisterCreateOrg(w) ==
    /\ reg[w].pc = "create_org"
    /\ LET slug == slugify(reg[w].organization_name) IN
       IF SlugInsertAllowed(orgs, slug)
       THEN /\ orgs' = OrganizationCreate(orgs, reg[w].organization_name, slug, reg[w].username)
            /\ reg' = [reg EXCEPT ![w].org = OrgInstance(orgs', Len(orgs')),
                                  ![w].pc = "add_member"]
       ELSE /\ reg' = [reg EXCEPT ![w].pc = "raised IntegrityError slug"]
            /\ orgs' = orgs
    /\ UNCHANGED <<users, projects, tasks, upd, resp>>

RegisterAddMember(w) ==
    /\ reg[w].pc = "add_member"
    /\ orgs' = MembersAdd(orgs, reg[w].org.id, reg[w].username)
    /\ reg' = [reg EXCEPT ![w].pc = "save"]
    /\ UNCHANGED <<users, projects, tasks, upd, resp>>

RegisterSave(w) ==
    /\ reg[w].pc = "save"
    /\ orgs' = OrgSave(orgs, reg[w].org)
    /\ reg' = [reg EXCEPT ![w].pc = "done"]
    /\ UNCHANGED <<users, projects, tasks, upd, resp>>

RegisterTerminal == {"done", "raised Username already exists",
                     "raised IntegrityError username", "raised IntegrityError slug"}

\* the response is sent; the worker takes the next request
RegisterReturn(w) ==
    /\ reg[w].pc \in RegisterTerminal
    /\ reg' = [reg EXCEPT ![w] = IdleReg]
    /\ UNCHANGED <<users, orgs, projects, tasks, upd, resp>>

\* ---------------------------------------------------------------- CreateProject, project
CreateProject(org_slug) ==
    /\ IF OrgIdsBySlug(orgs, org_slug) = {}
       THEN /\ resp' = [op |-> "createProject", outcome |-> "raise DoesNotExist"]
            /\ projects' = projects
       ELSE /\ Len(projects) < MaxProjects
            /\ projects' = Append(projects,
                   [organization |-> CHOOSE i \in OrgIdsBySlug(orgs, org_slug) : TRUE,
                    status |-> ProjectDefaultStatus])
            /\ resp' = [op |-> "createProject", outcome |-> "ok"]
    /\ UNCHANGED <<users, orgs, tasks, reg, upd>>

ProjectQuery(user, id) ==
    /\ resp' = [op |-> "project", outcome |-> resolve_project(projects, orgs, user, id)]
    /\ UNCHANGED <<users, orgs, projects, tasks, reg, upd>>

Actors == users \cup {AnonymousUser}

Slugs == {slugify(n) : n \in OrgNames}

Init ==
    /\ users = {}
    /\ orgs = <<>>
    /\ projects = <<>>
    /\ tasks = <<>>
    /\ reg = [w \in Workers |-> IdleReg]
    /\ upd = [w \in Workers |-> IdleUpd]
    /\ resp = NoResp

Next ==
    \/ \E w \in Workers, u \in Usernames, n \in OrgNames : RegisterStart(w, u, n)
    \/ \E w \in Workers : RegisterCreateUser(w)
    \/ \E w \in Workers : RegisterGetOrg(w)
    \/ \E w \in Workers : RegisterCreateOrg(w)
    \/ \E w \in Workers : RegisterAddMember(w)
    \/ \E w \in Workers : RegisterSave(w)
    \/ \E w \in Workers : RegisterReturn(w)

\* concurrent Register calls
Spec == Init /\ [][Next]_vars

\* ---------------------------------------------------------------- calls one after another
\* Register.mutate run from its first line to its last with no other request
\* in between: the composition of the steps above.
RegisterMutate(U, O, username, organization_name) ==
    IF username \in U
    THEN [outcome |-> "raise Username already exists", users |-> U, orgs |-> O]
    ELSE LET slug == slugify(organization_name)
             found == OrgIdsBySlug(O, slug) # {}
             O1 == IF found THEN O ELSE OrganizationCreate(O, organization_name, slug, username)
             org == IF found THEN RegisterLoadOrg(O, slug, username)
                    ELSE OrgInstance(O1, Len(O1))
         IN [outcome |-> "ok", users |-> U \cup {username},
             orgs |-> OrgSave(MembersAdd(O1, org.id, username), org)]

Register(username, organization_name) ==
    /\ LET r == RegisterMutate(users, orgs, username, organization_name) IN
          /\ users' = r.users
          /\ orgs' = r.orgs
          /\ resp' = [op |-> "register", outcome |-> r.outcome]
    /\ UNCHANGED <<projects, tasks, reg, upd>>

NextQuery ==
    \/ \E u \in Usernames, n \in OrgNames : Register(u, n)
    \/ \E s \in Slugs : CreateProject(s)
    \/ \E u \in Actors, id \in 1..MaxProjects : ProjectQuery(u, id)

\* Register, CreateProject and the project query, one call after another
SpecQuery == Init /\ [][NextQuery]_vars

\* ---------------------------------------------------------------- tasks
\* the column values of a Task row that CreateTask leaves to the model's defaults
TaskDefaults(project_id) ==
    [project |-> project_id, status |-> "TODO", description |-> "",
     assignee_email |-> "", due_date |-> None]

StatusArgs == {None, "", "TODO", "DONE"}
DescriptionArgs == {None, "", "text"}
AssigneeArgs == {None, "", "a@x.com"}
DueDateArgs == {None, "", "2026-01-01"}

UpdateTaskArgs ==
    [status : StatusArgs, description : DescriptionArgs,
     assignee_email : AssigneeArgs, due_date : DueDateArgs]

\* Python truthiness of an optional string argument: None and "" are false
Truthy(s) == s # None /\ s # ""

\* the SECURITY CHECK of UpdateTask.mutate
AssignDenied(owner, user, args) ==
    args.assignee_email # None /\ owner # None /\ owner # user

\* mutant: due_date is assigned without the "is not None" test
PatchFieldsDueDateAlways(task, args) ==
    LET t1 == IF args.assignee_email # None
              THEN [task EXCEPT !.assignee_email = args.assignee_email] ELSE task
        t2 == IF Truthy(args.status) THEN [t1 EXCEPT !.status = args.status] ELSE t1
        t3 == IF args.description # None
              THEN [t2 EXCEPT !.description = args.description] ELSE t2
    IN  [t3 EXCEPT !.due_date = IF args.due_date = "" THEN None ELSE args.due_date]

\* the assignments UpdateTask.mutate makes to the loaded instance
PatchFields(task, args) ==
    LET t1 == IF args.assignee_email # None
              THEN [task EXCEPT !.assignee_email = args.assignee_email] ELSE task
        t2 == IF Truthy(args.status) THEN [t1 EXCEPT !.status = args.status] ELSE t1
        t3 == IF args.description # None
              THEN [t2 EXCEPT !.description = args.description] ELSE t2
    IN  IF args.due_date # None
        THEN [t3 EXCEPT !.due_date = IF args.due_date = "" THEN None ELSE args.due_date]
        ELSE t3

\* task.project.organization.owner
TaskOrgOwner(task) == orgs[projects[task.project].organization].owner

\* task.save(): UPDATE of every column of the row from the instance
TaskSave(T, task_id, task) == [T EXCEPT ![task_id] = task]

DeniedMessage == "raise Only the Organization Admin can assign tasks."

\* mutant: the security check runs after the other fields were assigned and saved
UpdateTaskMutateCheckLast(T, user, task_id, args) ==
    IF task_id \notin 1..Len(T)
    THEN [outcome |-> "raise DoesNotExist", tasks |-> T]
    ELSE IF AssignDenied(TaskOrgOwner(T[task_id]), user, args)
    THEN [outcome |-> DeniedMessage,
          tasks |-> TaskSave(T, task_id,
                       PatchFields(T[task_id], [args EXCEPT !.assignee_email = None]))]
    ELSE [outcome |-> "ok", tasks |-> TaskSave(T, task_id, PatchFields(T[task_id], args))]

\* UpdateTask.mutate from its first line to its last
UpdateTaskMutate(T, user, task_id, args) ==
    IF task_id \notin 1..Len(T)
    THEN [outcome |-> "raise DoesNotExist", tasks |-> T]
    ELSE IF AssignDenied(TaskOrgOwner(T[task_id]), user, args)
    THEN [outcome |-> DeniedMessage, tasks |-> T]
    ELSE [outcome |-> "ok", tasks |-> TaskSave(T, task_id, PatchFields(T[task_id], args))]

UpdateTask(user, task_id, args) ==
    /\ LET r == UpdateTaskMutate(tasks, user, task_id, args) IN
          /\ tasks' = r.tasks
          /\ resp' = [op |-> "updateTask", outcome |-> r.outcome]
    /\ UNCHANGED <<users, orgs, projects, reg, upd>>

CreateTask(project_id, maxRows) ==
    /\ IF project_id \notin 1..Len(projects)
       THEN /\ resp' = [op |-> "createTask", outcome |-> "raise DoesNotExist"]
            /\ tasks' = tasks
       ELSE /\ Len(tasks) < maxRows
            /\ tasks' = Append(tasks, TaskDefaults(project_id))
            /\ resp' = [op |-> "createTask", outcome |-> "ok"]
    /\ UNCHANGED <<users, orgs, projects, reg, upd>>

\* self.tasks.count() and self.tasks.filter(status='DONE').count()
RECURSIVE CountTasks(_, _, _)
CountTasks(T, project_id, onlyDone) ==
    IF T = <<>> THEN 0
    ELSE (IF Head(T).project = project_id /\ (~onlyDone \/ Head(T).status = "DONE")
          THEN 1 ELSE 0) + CountTasks(Tail(T), project_id, onlyDone)

resolve_task_count(T, project_id) == CountTasks(T, project_id, FALSE)

\* mutant: no test for total == 0, the division raises ZeroDivisionError
resolve_completion_rate_unguarded(T, project_id) ==
    LET total == CountTasks(T, project_id, FALSE)
        completed == CountTasks(T, project_id, TRUE)
    IN  IF total = 0 THEN [raised |-> TRUE, num |-> 0, den |-> 1]
        ELSE [raised |-> FALSE, num |-> completed * 100, den |-> total]

\* the float is kept as the exact fraction num/den
resolve_completion_rate(T, project_id) ==
    LET total == CountTasks(T, project_id, FALSE)
        completed == CountTasks(T, project_id, TRUE)
    IN  IF total = 0 THEN [raised |-> FALSE, num |-> 0, den |-> 1]
        ELSE [raised |-> FALSE, num |-> completed * 100, den |-> total]

\* the database after Register("alice", "Ac"), Register("bob", " ac!") and
\* two CreateProject("ac")
InitTask ==
    /\ users = {"alice", "bob"}
    /\ orgs = << [name |-> <<"A", "c">>, slug |-> <<"a", "c">>, owner |-> "alice",
                  members |-> {"alice", "bob"}] >>
    /\ projects = << [organization |-> 1, status |-> ProjectDefaultStatus],
                     [organization |-> 1, status |-> ProjectDefaultStatus] >>
    /\ tasks = <<>>
    /\ reg = [w \in Workers |-> IdleReg]
    /\ upd = [w \in Workers |-> IdleUpd]
    /\ resp = NoResp

NextTask ==
    \/ \E p \in 1..3 : CreateTask(p, MaxTasks)
    \/ \E u \in Actors, t \in 1..(MaxTasks + 1), a \in UpdateTaskArgs : UpdateTask(u, t, a)

\* CreateTask and UpdateTask, one call after another
SpecTask == InitTask /\ [][NextTask]_vars

\* UpdateTask calls that pass only a status
StatusOnlyArgs == {a \in UpdateTaskArgs :
                     a.description = None /\ a.assignee_email = None /\ a.due_date = None}

NextRate ==
    \/ \E p \in 1..3 : CreateTask(p, MaxRateTasks)
    \/ \E u \in Actors, t \in 1..MaxRateTasks, a \in StatusOnlyArgs : UpdateTask(u, t, a)

\* CreateTask and status updates, one call after another
SpecRate == InitTask /\ [][NextRate]_vars

\* ---------------------------------------------------------------- concurrent updates
\* UpdateTask calls that pass at most one field
SinglePatchArgs ==
    {a \in UpdateTaskArgs :
        Cardinality({f \in {"status", "description", "assignee_email", "due_date"} :
                        a[f] # None}) <= 1}

ProjectStatusArgs == {"open", "closed"}

\* Task.objects.get(pk=task_id), the security check and the assignments
UpdateTaskLoad(w, user, task_id, args) ==
    /\ upd[w].pc = "idle"
    /\ upd' = [upd EXCEPT ![w] =
          IF task_id \notin 1..Len(tasks)
          THEN [IdleUpd EXCEPT !.op = "updateTask", !.pc = "raised DoesNotExist"]
          ELSE IF AssignDenied(TaskOrgOwner(tasks[task_id]), user, args)
          THEN [IdleUpd EXCEPT !.op = "updateTask", !.pc = "raised denied"]
          ELSE [IdleUpd EXCEPT !.op = "updateTask", !.pc = "save", !.id = task_id,
                               !.args = args, !.task = PatchFields(tasks[task_id], args)]]
    /\ UNCHANGED <<users, orgs, projects, tasks, reg, resp>>

\* task.save()
UpdateTaskSave(w) ==
    /\ upd[w].pc = "save" /\ upd[w].op = "updateTask"
    /\ tasks' = TaskSave(tasks, upd[w].id, upd[w].task)
    /\ upd' = [upd EXCEPT ![w].pc = "done"]
    /\ UNCHANGED <<users, orgs, projects, reg, resp>>

\* project.save(): UPDATE of every column of the row from the instance
ProjectSave(P, project_id, project) == [P EXCEPT ![project_id] = project]

\* Project.objects.get(pk=project_id); project.status = status
UpdateProjectLoad(w, project_id, status) ==
    /\ upd[w].pc = "idle"
    /\ upd' = [upd EXCEPT ![w] =
          IF project_id \notin 1..Len(projects)
          THEN [IdleUpd EXCEPT !.op = "updateProject", !.pc = "raised DoesNotExist"]
          ELSE [IdleUpd EXCEPT !.op = "updateProject", !.pc = "save", !.id = project_id,
                               !.project = [projects[project_id] EXCEPT !.status = status]]]
    /\ UNCHANGED <<users, orgs, projects, tasks, reg, resp>>

UpdateProjectSave(w) ==
    /\ upd[w].pc = "save" /\ upd[w].op = "updateProject"
    /\ projects' = ProjectSave(projects, upd[w].id, upd[w].project)
    /\ upd' = [upd EXCEPT ![w].pc = "done"]
    /\ UNCHANGED <<users, orgs, tasks, reg, resp>>

UpdateReturn(w) ==
    /\ upd[w].pc \in {"done", "raised DoesNotExist", "raised denied"}
    /\ upd' = [upd EXCEPT ![w] = IdleUpd]
    /\ UNCHANGED <<users, orgs, projects, tasks, reg, resp>>

\* the database of InitTask after CreateTask(1)
InitConc ==
    /\ users = {"alice", "bob"}
    /\ orgs = << [name |-> <<"A", "c">>, slug |-> <<"a", "c">>, owner |-> "alice",
                  members |-> {"alice", "bob"}] >>
    /\ projects = << [organization |-> 1, status |-> ProjectDefaultStatus] >>
    /\ tasks = << TaskDefaults(1) >>
    /\ reg = [w \in Workers |-> IdleReg]
    /\ upd = [w \in Workers |-> IdleUpd]
    /\ resp = NoResp

NextConc ==
    \/ \E w \in Workers, u \in Actors, t \in 1..2, a \in SinglePatchArgs :
          UpdateTaskLoad(w, u, t, a)
    \/ \E w \in Workers : UpdateTaskSave(w)
    \/ \E w \in Workers, p \in 1..2, st \in ProjectStatusArgs : UpdateProjectLoad(w, p, st)
    \/ \E w \in Workers : UpdateProjectSave(w)
    \/ \E w \in Workers : UpdateReturn(w)

\* concurrent UpdateTask and UpdateProject calls
SpecConc == InitConc /\ [][NextConc]_vars

\* ================================================================ properties
Viewers == Usernames \cup {AnonymousUser}

\* the viewers for whom isAdmin resolves true on an organization
Admins(org) == {u \in Viewers : resolve_is_admin(org, u)}

TaskFields == {"status", "description", "assignee_email", "due_date"}

\* C1: in every reachable state of concurrent Register calls no two
\* Organization rows share a slug, and every Register call that has succeeded
\* finds exactly one Organization with the slug of its organization name, with
\* its user among that Organization's members.
SlugsUniqueAndRegisteredAreMembers ==
    /\ \A i, j \in 1..Len(orgs) : orgs[i].slug = orgs[j].slug => i = j
    /\ \A w \in Workers : reg[w].pc = "done" =>
          LET ids == OrgIdsBySlug(orgs, slugify(reg[w].organization_name)) IN
          /\ Cardinality(ids) = 1
          /\ \A i \in ids : reg[w].username \in orgs[i].members

\* two calls whose different names slugify identically have both succeeded
TwoNamesOneSlugBothRegistered ==
    \E w1, w2 \in Workers :
        /\ reg[w1].pc = "done" /\ reg[w2].pc = "done"
        /\ reg[w1].username # reg[w2].username
        /\ reg[w1].organization_name # reg[w2].organization_name
        /\ slugify(reg[w1].organization_name) = slugify(reg[w2].organization_name)

\* C2: an Organization row is created by the Register call that inserts it,
\* with that call's user as the only viewer for whom isAdmin is true; every
\* later step keeps the row's owner, name and slug, keeps the set of viewers
\* for whom isAdmin is true, and only ever adds members.
OwnerFixedAtCreation ==
    [][ /\ Len(orgs') >= Len(orgs)
        /\ \A i \in 1..Len(orgs) :
              /\ orgs'[i].owner = orgs[i].owner
              /\ orgs'[i].slug = orgs[i].slug
              /\ orgs[i].members \subseteq orgs'[i].members
              /\ Admins(orgs'[i]) = Admins(orgs[i])
        /\ \A i \in (Len(orgs) + 1)..Len(orgs') :
              \E w \in Workers :
                 /\ reg[w].pc = "create_org" /\ reg'[w].pc = "add_member"
                 /\ orgs'[i].owner = reg[w].username
                 /\ Admins(orgs'[i]) = {reg[w].username}
      ]_vars

\* a second user has joined an existing organization and is not its admin
MemberJoinedExistingOrg ==
    \E w \in Workers, i \in 1..Len(orgs) :
        /\ reg[w].pc = "done" /\ reg[w].org.id = i
        /\ reg[w].username \in orgs[i].members
        /\ reg[w].username # orgs[i].owner
        /\ ~resolve_is_admin(orgs[i], reg[w].username)
        /\ resolve_is_admin(orgs[i], orgs[i].owner)

\* C3: a Register call that failed on the slug conflict has left no User row
\* with its username behind (so the identical call can be repeated).
ConflictLeavesNoUser ==
    \A w \in Workers :
        reg[w].pc = "raised IntegrityError slug" => reg[w].username \notin users

\* C10: in every state another request can observe, the owner of every
\* Organization is among its members.
OwnerAlwaysMember ==
    \A i \in 1..Len(orgs) : orgs[i].owner # None => orgs[i].owner \in orgs[i].members

\* C7: the project query answers "Not logged in" to an anonymous actor,
\* null to an authenticated actor asking for an id that does not exist,
\* "Access Denied" to an authenticated actor outside the members of the
\* project's organization, the project in the remaining case, and it changes
\* no table.
ProjectQueryOutcomes ==
    [][ \A u \in Viewers, id \in 1..MaxProjects :
          (u \in Actors /\ ProjectQuery(u, id)) =>
             /\ UNCHANGED <<users, orgs, projects, tasks>>
             /\ resp'.outcome =
                  CASE u = AnonymousUser -> "raise Not logged in"
                    [] u # AnonymousUser /\ id > Len(projects) -> "null"
                    [] u # AnonymousUser /\ id <= Len(projects)
                         /\ u \notin orgs[projects[id].organization].members
                       -> "raise Access Denied"
                    [] OTHER -> "project"
      ]_vars

\* an authenticated user outside the organization was refused a project
NonMemberWasDenied ==
    /\ resp.op = "project" /\ resp.outcome = "raise Access Denied"
    /\ \E id \in 1..Len(projects) :
          users \ orgs[projects[id].organization].members # {}

\* C4: in every reachable state, an UpdateTask call that passes
\* assigneeEmail, by an actor who is not the owner of the task's
\* organization, is answered with the access-denied failure and leaves the
\* Task table as it was, whatever else it passes.
DeniedAssignChangesNothing ==
    \A t \in 1..Len(tasks), u \in Actors, a \in UpdateTaskArgs :
        ( /\ a.assignee_email # None
          /\ TaskOrgOwner(tasks[t]) # None
          /\ u # TaskOrgOwner(tasks[t]) ) =>
           LET r == UpdateTaskMutate(tasks, u, t, a) IN
           /\ r.outcome = DeniedMessage
           /\ r.tasks = tasks

\* a denied assignment on a task whose fields had all been set before
DeniedOnFilledTask ==
    /\ resp.op = "updateTask" /\ resp.outcome = DeniedMessage
    /\ Len(tasks) >= 1
    /\ tasks[1].status = "DONE" /\ tasks[1].description = "text"
    /\ tasks[1].assignee_email = "a@x.com" /\ tasks[1].due_date = "2026-01-01"

\* C5: in every reachable state, a successful UpdateTask call leaves every
\* field it was not passed (None) at the value it had before the call, keeps
\* the task's project, and leaves every other task alone.
UnsuppliedFieldsKept ==
    \A t \in 1..Len(tasks), u \in Actors, a \in UpdateTaskArgs :
        LET r == UpdateTaskMutate(tasks, u, t, a) IN
        r.outcome = "ok" =>
           /\ \A f \in TaskFields : a[f] = None => r.tasks[t][f] = tasks[t][f]
           /\ r.tasks[t].project = tasks[t].project
           /\ Len(r.tasks) = Len(tasks)
           /\ \A t2 \in 1..Len(tasks) : t2 # t => r.tasks[t2] = tasks[t2]

\* a successful call after which a task has every field set
UpdatedTaskAllFieldsSet ==
    /\ resp.op = "updateTask" /\ resp.outcome = "ok"
    /\ Len(tasks) >= 1
    /\ tasks[1].status = "DONE" /\ tasks[1].description = "text"
    /\ tasks[1].assignee_email = "a@x.com" /\ tasks[1].due_date = "2026-01-01"

\* C6: in every reachable state, a successful UpdateTask call stores every
\* field it was passed (not None), the empty string included, except that a
\* dueDate of "" clears the due date.
SuppliedFieldsApplied ==
    \A t \in 1..Len(tasks), u \in Actors, a \in UpdateTaskArgs :
        LET r == UpdateTaskMutate(tasks, u, t, a) IN
        r.outcome = "ok" =>
           /\ a.status # None => r.tasks[t].status = a.status
           /\ a.description # None => r.tasks[t].description = a.description
           /\ a.assignee_email # None => r.tasks[t].assignee_email = a.assignee_email
           /\ a.due_date # None =>
                 r.tasks[t].due_date = (IF a.due_date = "" THEN None ELSE a.due_date)

\* C8: for every project, taskCount is the number of its Task rows and
\* completionRate is 100 times the number of its DONE rows divided by that
\* number, or 0 (and no division-by-zero failure) when it has no rows.
CompletionRateIsPercentDone ==
    \A p \in 1..Len(projects) :
        LET mine == {i \in 1..Len(tasks) : tasks[i].project = p}
            done == {i \in mine : tasks[i].status = "DONE"}
            rate == resolve_completion_rate(tasks, p)
        IN  /\ resolve_task_count(tasks, p) = Cardinality(mine)
            /\ ~rate.raised
            /\ rate.den > 0
            /\ mine = {} => rate.num = 0
            /\ mine # {} => rate.num * Cardinality(mine) = 100 * Cardinality(done) * rate.den

\* project 1 holds [DONE, DONE, TODO, TODO] and resolves to 50, project 2 is empty
HalfDoneAndEmptyProject ==
    /\ Len(tasks) = 4
    /\ \A i \in 1..4 : tasks[i].project = 1
    /\ tasks[1].status = "DONE" /\ tasks[2].status = "DONE"
    /\ tasks[3].status = "TODO" /\ tasks[4].status = "TODO"
    /\ resolve_completion_rate(tasks, 1).num = 50 * resolve_completion_rate(tasks, 1).den
    /\ resolve_task_count(tasks, 1) = 4
    /\ resolve_completion_rate(tasks, 2).num = 0

\* C9: the save of an UpdateTask call changes, in the stored row, only the
\* fields that call was passed: a field it was not passed keeps the value
\* the row holds when the save happens (it is never put back to a stale one).
SaveWritesOnlySuppliedFields ==
    [][ \A w \in Workers :
          (upd[w].pc = "save" /\ upd[w].op = "updateTask" /\ upd'[w].pc = "done") =>
             \A f \in TaskFields :
                upd[w].args[f] = None => tasks'[upd[w].id][f] = tasks[upd[w].id][f]
      ]_vars

====
